---- MODULE Spec2Model ----
(***************************************************************************)
(* Chunk storage, greedy meshing and chunk streaming of the voxel viewer   *)
(* (src/src/render/chunk.rs).                                              *)
(*                                                                         *)
(* Representation.  Option<T> is a sequence of length 0 (None) or 1        *)
(* (Some).  Vector3 is a triple <<x, y, z>>; the arrays x[], q[], du[],    *)
(* dv[] of greedy_mesh are triples indexed by axis + 1.  A HashMap is a    *)
(* function whose domain is its key set, a HashSet is a set.  The f32      *)
(* coordinates of greedy_mesh only ever hold small whole numbers and are   *)
(* modelled as integers.  The chunk edge length (16 in the source) is      *)
(* scaled down by CHUNK_SIZE so that chunk contents can be enumerated.     *)
(***************************************************************************)
EXTENDS Integers, Sequences, FiniteSets, Bags, TLC

(* ------------------------------------------------------------------ *)
(* The fields of ChunkManager.                                         *)
(* ------------------------------------------------------------------ *)

VARIABLES
    chunks,         \* HashMap<ChunkPosition, Chunk>
    rebuild,        \* HashSet<ChunkPosition>
    render,         \* HashSet<ChunkPosition>
    old_chunk_pos,  \* Option<Vector3<i32>>
    last            \* record of the most recent call (history only)

vars == << chunks, rebuild, render, old_chunk_pos, last >>

(* ------------------------------------------------------------------ *)
(* Sizes.                                                              *)
(* ------------------------------------------------------------------ *)

\* Edge length of a chunk (chunk.rs:6 sets 16; scaled for checking).
CHUNK_SIZE == 3

CHUNK_3D_SIZE == CHUNK_SIZE * CHUNK_SIZE * CHUNK_SIZE

MAX_REBUILD_FRAME == 2

\* render_dist as set by ChunkManager::new.
RENDER_DIST == 2

\* A chunk under edit differs in at most MaxEdits slots from what Chunk::new
\* or Chunk::full put there.
MaxEdits == 1

None == << >>

Some(v) == << v >>

Axes == 0 .. 2

Abs(a) == IF a < 0 THEN -a ELSE a

(* ------------------------------------------------------------------ *)
(* Block (the final block module is not part of the sources).          *)
(* ------------------------------------------------------------------ *)

\* Block::new(id): an active block.
BlockNew(id) == [id |-> id, is_active |-> TRUE]

\* Block::quad(width, height, position, normal): the four corners of the
\* parallelogram and the fixed index fan.
quad(w, h, pos, normal) ==
    LET corner(a, b) == << pos[1] + a * w[1] + b * h[1],
                           pos[2] + a * w[2] + b * h[2],
                           pos[3] + a * w[3] + b * h[3] >>
        vertex(p) == [position |-> p, color |-> "flat", normal |-> normal]
    IN  << << vertex(corner(0, 0)), vertex(corner(1, 0)),
              vertex(corner(1, 1)), vertex(corner(0, 1)) >>,
           << 0, 3, 2, 2, 1, 0 >> >>

(* ------------------------------------------------------------------ *)
(* Chunk: storage.                                                     *)
(* ------------------------------------------------------------------ *)

Slots == 0 .. (CHUNK_3D_SIZE - 1)

\* A flattening that adds x and y, so that (0, 1, z) and (1, 0, z) collide.
slot_index_sum(position) ==
    ((position[1] + position[2]) * CHUNK_SIZE) + position[3]

\* index = ((x * CHUNK_SIZE + y) * CHUNK_SIZE) + z
slot_index(position) ==
    ((position[1] * CHUNK_SIZE + position[2]) * CHUNK_SIZE) + position[3]

\* A range test that looks at x only.
in_limit_x_only(position) == position[1] <= CHUNK_SIZE - 1

\* x <= limit && y <= limit && z <= limit, with limit = CHUNK_SIZE - 1.
in_limit(position) ==
    LET limit == CHUNK_SIZE - 1
    IN  position[1] <= limit /\ position[2] <= limit /\ position[3] <= limit

ChunkNew(id, position) ==
    [id |-> id, position |-> position, is_active |-> FALSE,
     blocks |-> [s \in Slots |-> None], mesh |-> None]

ChunkFull(id, position) ==
    [id |-> id, position |-> position, is_active |-> FALSE,
     blocks |-> [s \in Slots |-> Some(BlockNew(0))], mesh |-> None]

\* An insert that stores the block whatever the slot holds.
insert_block_overwrite(chunk, block, position) ==
    IF in_limit(position)
    THEN [chunk EXCEPT !.blocks[slot_index(position)] = Some(block)]
    ELSE chunk

insert_block(chunk, block, position) ==
    IF in_limit(position)
    THEN LET index == slot_index(position)
         IN  IF chunk.blocks[index] = None
             THEN [chunk EXCEPT !.blocks[index] = Some(block)]
             ELSE chunk
    ELSE chunk

remove_block(chunk, position) ==
    IF in_limit(position)
    THEN LET index == slot_index(position)
         IN  IF chunk.blocks[index] # None
             THEN [chunk EXCEPT !.blocks[index] = None]
             ELSE chunk
    ELSE chunk

block_active(chunk, position) ==
    IF in_limit(position)
    THEN LET index == slot_index(position)
         IN  IF chunk.blocks[index] # None
             THEN chunk.blocks[index][1].is_active
             ELSE FALSE
    ELSE FALSE

(* ------------------------------------------------------------------ *)
(* Chunk: greedy meshing.                                              *)
(* ------------------------------------------------------------------ *)

\* `as usize` of an f32 holding a whole number: negative values saturate to 0.
as_usize(f) == IF f < 0 THEN 0 ELSE f

\* The array [0.0; 3] with entry d set to val.
unit(d, val) ==
    IF d = 0 THEN << val, 0, 0 >> ELSE IF d = 1 THEN << 0, val, 0 >> ELSE << 0, 0, val >>

\* The coordinate array x with x[d] = xd, x[u] = xu, x[v] = xv, where
\* u = (d + 1) % 3 and v = (d + 2) % 3.
coords(d, xd, xu, xv) ==
    IF d = 0 THEN << xd, xu, xv >>
    ELSE IF d = 1 THEN << xv, xd, xu >>
    ELSE << xu, xv, xd >>

\* The direction of the sweep along axis d: q[d] = 1.0.
sweep_q(d) == unit(d, 1)

\* One cell of the mask of the plane between x[d] = xd and x[d] = xd + 1.
mask_cell(chunk, d, xd, xu, xv) ==
    LET x == coords(d, xd, xu, xv)
        q == sweep_q(d)
        block_current ==
            IF 0 <= xd
            THEN block_active(chunk, << as_usize(x[1]), as_usize(x[2]), as_usize(x[3]) >>)
            ELSE FALSE
        block_compare ==
            IF xd < CHUNK_SIZE - 1
            THEN block_active(chunk, << as_usize(x[1] + q[1]),
                                        as_usize(x[2] + q[2]),
                                        as_usize(x[3] + q[3]) >>)
            ELSE FALSE
    IN  block_current # block_compare

\* The mask loop: n counts x[u] fastest, then x[v].
compute_mask(chunk, d, xd) ==
    [n \in 0 .. (CHUNK_SIZE * CHUNK_SIZE - 1) |->
        mask_cell(chunk, d, xd, n % CHUNK_SIZE, n \div CHUNK_SIZE)]

RECURSIVE grow_width(_, _, _, _)
grow_width(mask, i, n, w) ==
    IF (i + w) < CHUNK_SIZE /\ mask[n + w]
    THEN grow_width(mask, i, n, w + 1)
    ELSE w

\* A merge that never grows a rectangle beyond its first row.
grow_height_one_row(mask, j, n, w, h) == h

RECURSIVE grow_height(_, _, _, _, _)
grow_height(mask, j, n, w, h) ==
    IF (j + h) < CHUNK_SIZE
    THEN IF \A k \in 0 .. (w - 1) : mask[n + k + h * CHUNK_SIZE]
         THEN grow_height(mask, j, n, w, h + 1)
         ELSE h
    ELSE h

\* The arguments of one Block::quad call: the rectangle w x h found at
\* (i, j) of the plane at x[d] = xd.
quad_args(position, d, xd, i, j, w, h) ==
    LET u == (d + 1) % 3
        v == (d + 2) % 3
        x == coords(d, xd, i, j)
        chunk_pos == << position[1] * CHUNK_SIZE,
                        position[2] * CHUNK_SIZE,
                        position[3] * CHUNK_SIZE >>
    IN  [width  |-> unit(u, w),
         height |-> unit(v, h),
         position |-> << x[1] + chunk_pos[1], x[2] + chunk_pos[2], x[3] + chunk_pos[3] >>,
         normal |-> sweep_q(d)]

\* A merge that does not clear the cells of the rectangle it has emitted.
RECURSIVE merge_plane_keep_mask(_, _, _, _, _, _, _)
merge_plane_keep_mask(position, d, xd, mask, j, i, n) ==
    IF j >= CHUNK_SIZE THEN << >>
    ELSE IF i >= CHUNK_SIZE
    THEN merge_plane_keep_mask(position, d, xd, mask, j + 1, 0, n)
    ELSE IF mask[n]
    THEN LET w == grow_width(mask, i, n, 1)
             h == grow_height(mask, j, n, w, 1)
         IN  << quad_args(position, d, xd, i, j, w, h) >>
                 \o merge_plane_keep_mask(position, d, xd, mask, j, i + w, n + w)
    ELSE merge_plane_keep_mask(position, d, xd, mask, j, i + 1, n + 1)

\* The merge loops over one plane (for j / while i), n running with them.
\* xd is x[d] after its increment.  Yields the Block::quad calls in order.
RECURSIVE merge_plane(_, _, _, _, _, _, _)
merge_plane(position, d, xd, mask, j, i, n) ==
    IF j >= CHUNK_SIZE THEN << >>
    ELSE IF i >= CHUNK_SIZE
    THEN merge_plane(position, d, xd, mask, j + 1, 0, n)
    ELSE IF mask[n]
    THEN LET w == grow_width(mask, i, n, 1)
             h == grow_height(mask, j, n, w, 1)
             cleared == { n + k + l * CHUNK_SIZE : k \in 0 .. (w - 1), l \in 0 .. (h - 1) }
             mask2 == [m \in DOMAIN mask |-> IF m \in cleared THEN FALSE ELSE mask[m]]
         IN  << quad_args(position, d, xd, i, j, w, h) >>
                 \o merge_plane(position, d, xd, mask2, j, i + w, n + w)
    ELSE merge_plane(position, d, xd, mask, j, i + 1, n + 1)

\* The mask indices read by `while (i + w) < CHUNK_SIZE && mask[n + w]`,
\* had && tested its right operand first.
RECURSIVE grow_width_reads_eager(_, _, _, _)
grow_width_reads_eager(mask, i, n, w) ==
    {n + w} \cup (IF (i + w) < CHUNK_SIZE /\ mask[n + w]
                  THEN grow_width_reads_eager(mask, i, n, w + 1)
                  ELSE {})

\* The mask indices read by `while (i + w) < CHUNK_SIZE && mask[n + w]`:
\* mask[n + w] is read only when the left operand holds.
RECURSIVE grow_width_reads(_, _, _, _)
grow_width_reads(mask, i, n, w) ==
    IF (i + w) < CHUNK_SIZE
    THEN {n + w} \cup (IF mask[n + w] THEN grow_width_reads(mask, i, n, w + 1) ELSE {})
    ELSE {}

\* The mask indices read by the 'outer loop: in each row h the cells
\* k = 0, 1, .. up to the first one that is not set.
RECURSIVE grow_height_reads(_, _, _, _, _)
grow_height_reads(mask, j, n, w, h) ==
    IF (j + h) < CHUNK_SIZE
    THEN { n + k + h * CHUNK_SIZE :
             k \in { k1 \in 0 .. (w - 1) :
                       \A k2 \in 0 .. (k1 - 1) : mask[n + k2 + h * CHUNK_SIZE] } }
         \cup (IF \A k \in 0 .. (w - 1) : mask[n + k + h * CHUNK_SIZE]
               THEN grow_height_reads(mask, j, n, w, h + 1)
               ELSE {})
    ELSE {}

\* Every mask index the merge loops over one plane read or write: mask[n]
\* at each step, the reads of the two growth loops and the cells cleared.
RECURSIVE merge_accesses(_, _, _, _)
merge_accesses(mask, j, i, n) ==
    IF j >= CHUNK_SIZE THEN {}
    ELSE IF i >= CHUNK_SIZE THEN merge_accesses(mask, j + 1, 0, n)
    ELSE IF mask[n]
    THEN LET w == grow_width(mask, i, n, 1)
             h == grow_height(mask, j, n, w, 1)
             cleared == { n + k + l * CHUNK_SIZE : k \in 0 .. (w - 1), l \in 0 .. (h - 1) }
             mask2 == [m \in DOMAIN mask |-> IF m \in cleared THEN FALSE ELSE mask[m]]
         IN  {n} \cup grow_width_reads(mask, i, n, 1)
                 \cup grow_height_reads(mask, j, n, w, 1)
                 \cup cleared
                 \cup merge_accesses(mask2, j, i + w, n + w)
    ELSE {n} \cup merge_accesses(mask, j, i + 1, n + 1)

\* The positions passed to block_active while the mask of the plane at
\* x[d] = xd is computed: x when 0 <= x[d], x + q when x[d] < CHUNK_SIZE - 1.
mask_calls(d, xd) ==
    UNION { LET x == coords(d, xd, xu, xv)
                q == sweep_q(d)
            IN  (IF 0 <= xd
                 THEN { << as_usize(x[1]), as_usize(x[2]), as_usize(x[3]) >> }
                 ELSE {})
                \cup
                (IF xd < CHUNK_SIZE - 1
                 THEN { << as_usize(x[1] + q[1]), as_usize(x[2] + q[2]),
                           as_usize(x[3] + q[3]) >> }
                 ELSE {}) :
            xu \in 0 .. (CHUNK_SIZE - 1), xv \in 0 .. (CHUNK_SIZE - 1) }

\* while x[d] < size, starting from x[d] = -1: mask, increment, merge.
RECURSIVE sweep_planes(_, _, _)
sweep_planes(chunk, d, xd) ==
    IF xd < CHUNK_SIZE
    THEN merge_plane(chunk.position, d, xd + 1, compute_mask(chunk, d, xd), 0, 0, 0)
             \o sweep_planes(chunk, d, xd + 1)
    ELSE << >>

\* A sweep that starts at plane 0 and so skips the plane below the chunk.
greedy_quads_from_zero(chunk) ==
    sweep_planes(chunk, 0, 0) \o sweep_planes(chunk, 1, 0) \o sweep_planes(chunk, 2, 0)

\* A mesher that looks across the chunk border: it drops the quads of an
\* outer boundary plane when the chunk map holds a neighbour on the other
\* side of that plane with a block in it.
greedy_quads_culled(chunk) ==
    LET calls == sweep_planes(chunk, 0, -1) \o sweep_planes(chunk, 1, -1)
                     \o sweep_planes(chunk, 2, -1)
        hidden(q) ==
            \E d \in Axes, k \in {0, 1} :
                LET step == unit(d, 2 * k - 1)
                    np == << chunk.position[1] + step[1], chunk.position[2] + step[2],
                             chunk.position[3] + step[3] >>
                IN  /\ q.normal = sweep_q(d)
                    /\ q.position[d + 1] = (chunk.position[d + 1] + k) * CHUNK_SIZE
                    /\ np \in DOMAIN chunks
                    /\ \E s \in Slots : chunks[np].blocks[s] # None
    IN  SelectSeq(calls, LAMBDA q : ~ hidden(q))

\* for d in 0..3: every Block::quad call of one greedy_mesh, in order.
greedy_quads(chunk) ==
    sweep_planes(chunk, 0, -1) \o sweep_planes(chunk, 1, -1) \o sweep_planes(chunk, 2, -1)

\* The concatenation of the sequences seqs[lo], ..., seqs[hi].
RECURSIVE flatten(_, _, _)
flatten(seqs, lo, hi) ==
    IF lo > hi THEN << >>
    ELSE IF lo = hi THEN seqs[lo]
    ELSE LET mid == (lo + hi) \div 2
         IN  flatten(seqs, lo, mid) \o flatten(seqs, mid + 1, hi)

\* vertices.append(&mut quad.0) over all quad calls.
collect_vertices(calls) ==
    flatten([k \in 1 .. Len(calls) |->
                quad(calls[k].width, calls[k].height, calls[k].position, calls[k].normal)[1]],
            1, Len(calls))

\* indices.append(&mut quad.1) after *val += offset; offset grows by 4 per quad.
collect_indices(calls) ==
    flatten([k \in 1 .. Len(calls) |->
                LET fan == quad(calls[k].width, calls[k].height,
                                calls[k].position, calls[k].normal)[2]
                    offset == 4 * (k - 1)
                IN  [m \in 1 .. Len(fan) |-> fan[m] + offset]],
            1, Len(calls))

\* device.create_buffer_with_data(data): an opaque GPU buffer, known to
\* this subsystem only by the number of elements uploaded into it.
create_buffer_with_data(data) == [size |-> Len(data)]

\* A tail that sets is_active and leaves the cached mesh as it was.
mesh_kept(chunk, calls) ==
    [id |-> chunk.id, position |-> chunk.position, blocks |-> chunk.blocks,
     is_active |-> TRUE, mesh |-> chunk.mesh]

\* The tail of greedy_mesh, given the Block::quad calls of its sweep.
mesh_from_quads(chunk, calls) ==
    LET geo == [vertices |-> collect_vertices(calls), indices |-> collect_indices(calls)]
    IN  [id |-> chunk.id, position |-> chunk.position, blocks |-> chunk.blocks,
         is_active |-> TRUE,
         mesh |-> IF geo.vertices # << >> /\ geo.indices # << >>
                  THEN Some([vertex_buffer |-> create_buffer_with_data(geo.vertices),
                             index_buffer |-> create_buffer_with_data(geo.indices),
                             num_elements |-> Len(geo.indices)])
                  ELSE None]

greedy_mesh(chunk) == mesh_from_quads(chunk, greedy_quads(chunk))

(* ------------------------------------------------------------------ *)
(* Observer position.                                                  *)
(* ------------------------------------------------------------------ *)

\* Camera coordinates are multiples of 1 / Den.
Den == 2

\* Largest camera coordinate magnitude, in whole blocks.
MaxCoord == 40

\* An f32 coordinate: sign bit and magnitude (in units of 1 / Den), so that
\* +0.0 and -0.0 are distinct inputs.
F32(sign, mag) == [sign |-> sign, mag |-> mag]

is_sign_positive(f) == ~f.sign

\* The numerator of the value of f over Den.
num(f) == IF f.sign THEN -f.mag ELSE f.mag

\* floor(a / b) and ceil(a / b) for b > 0, followed by `as i32`.
floor_div(a, b) == a \div b

ceil_div(a, b) == -((-a) \div b)

\* A horizontal rule that ignores the sign and always takes the floor branch.
chunk_coord_h_floor_only(f) == floor_div(num(f) + 8 * Den, 16 * Den)

\* Horizontal axes: ((p + 8.0) / 16.0).floor() or ((p - 8.0) / 16.0).ceil().
chunk_coord_h(f) ==
    IF is_sign_positive(f)
    THEN floor_div(num(f) + 8 * Den, 16 * Den)
    ELSE ceil_div(num(f) - 8 * Den, 16 * Den)

\* Vertical axis: (p / 16.0).floor() or (p / 16.0).ceil().
chunk_coord_v(f) ==
    IF is_sign_positive(f)
    THEN floor_div(num(f), 16 * Den)
    ELSE ceil_div(num(f), 16 * Den)

camera_chunk_pos(camera) ==
    << chunk_coord_h(camera[1]), chunk_coord_v(camera[2]), chunk_coord_h(camera[3]) >>

(* ------------------------------------------------------------------ *)
(* ChunkManager.                                                       *)
(* ------------------------------------------------------------------ *)

\* What the most recent call did:
\*   op         the function called
\*   camera     update: the observer position passed (else None)
\*   transition update: whether the window was recomputed
\*   first      update: whether old_chunk_pos was None when it was called
\*   marked     update: the positions inserted into rebuild
\*   visited    rebuild_chunks: the positions its loop body ran for
\*   removed    rebuild_chunks: the positions removed from rebuild
\*   meshed     the positions greedy_mesh was invoked on, in order
\*   quads      a direct greedy_mesh call: its Block::quad calls
\*   had_mesh   a direct greedy_mesh call: whether a mesh was cached before
\*   edit       a logged block call: its arguments and returned value
\*   drawn      draw_chunks: the bag of draw_mesh calls issued
Idle(op) ==
    [op |-> op, camera |-> None, transition |-> FALSE, marked |-> {},
     visited |-> {}, removed |-> {}, meshed |-> << >>, quads |-> << >>,
     had_mesh |-> FALSE, edit |-> None, drawn |-> << >>, first |-> FALSE]

get_chunk(map, position) ==
    IF position \in DOMAIN map THEN Some(map[position]) ELSE None

Max(a, b) == IF a >= b THEN a ELSE b

\* The positions visited by the three nested loops of update.
window(c) ==
    { << x, y, z >> :
        x \in (c[1] - RENDER_DIST) .. (c[1] + RENDER_DIST),
        y \in Max(c[2] - RENDER_DIST, 0) .. (c[2] + RENDER_DIST - 1),
        z \in (c[3] - RENDER_DIST) .. (c[3] + RENDER_DIST) }

\* A transition test that compares the horizontal coordinates only.
crossed_horizontally(old, c) == old[1] # c[1] \/ old[3] # c[3]

\* A transition test that compares nothing.
crossed_always(old, c) == TRUE

\* if old_chunk_pos != camera_chunk_pos
crossed(old, c) == old # c

\* A dirty test that takes every chunk of the window.
unmeshed_always(chunk) == TRUE

\* A dirty test that consults is_active instead of the mesh.
unmeshed_by_flag(chunk) == ~chunk.is_active

\* if let None = chunk.mesh
unmeshed(chunk) == chunk.mesh = None

\* A cap that lets one more chunk through.
cap_reached_late(rebuilt) == rebuilt > MAX_REBUILD_FRAME

\* if rebuilt >= MAX_REBUILD_FRAME { break; }
cap_reached(rebuilt) == rebuilt >= MAX_REBUILD_FRAME

\* A removal that happens only when a chunk was found.
after_visit_keep_missing(set, position, found) ==
    IF found # None THEN set \ {position} ELSE set

\* self.rebuild.remove(&position), whatever get_chunk_mut found.
after_visit(set, position, found) == set \ {position}

\* Chunks handed to add_chunk.
ChunkInputs ==
    { ChunkFull(0, << 0, 0, 0 >>), ChunkFull(0, << 3, 0, 0 >>),
      ChunkNew(1, << 0, 1, 0 >>), ChunkNew(1, << 0, 0, 0 >>) }

\* greedy_mesh of the chunks handed to add_chunk, evaluated once.
MeshedInputs == [chunk \in ChunkInputs |-> greedy_mesh(chunk)]

\* A meshing that sets the flag and builds nothing.
remesh_flag_only(chunk) ==
    [id |-> chunk.id, position |-> chunk.position, is_active |-> TRUE,
     blocks |-> chunk.blocks, mesh |-> chunk.mesh]

\* chunk.greedy_mesh() as called by rebuild_chunks.  greedy_mesh reads id,
\* position and blocks only and overwrites is_active and mesh, so a chunk
\* that differs from a tabulated one in those two fields has the same result.
remesh(chunk) ==
    LET unmeshed_chunk == [id |-> chunk.id, position |-> chunk.position,
                           is_active |-> FALSE, blocks |-> chunk.blocks,
                           mesh |-> None]
    IN  IF unmeshed_chunk \in DOMAIN MeshedInputs
        THEN MeshedInputs[unmeshed_chunk]
        ELSE greedy_mesh(chunk)

\* The body of the loop for one position: get_chunk_mut, greedy_mesh and the
\* counter when a chunk is found, then the removal.  st carries chunks,
\* rebuild, the counter rebuilt and the history fields.  A position is visited
\* at most once and greedy_mesh touches only its own chunk, so the chunk found
\* is the one the call started with; fresh holds the meshed form of each of
\* those.
visit(st, position, fresh) ==
    LET found == get_chunk(st.chunks, position)
        left == after_visit(st.rebuild, position, found)
    IN  [chunks |-> IF found # None
                    THEN [p \in DOMAIN st.chunks |->
                             IF p = position
                             THEN (CHOOSE r \in fresh : r.position = p).chunk
                             ELSE st.chunks[p]]
                    ELSE st.chunks,
         rebuilt |-> IF found # None THEN st.rebuilt + 1 ELSE st.rebuilt,
         meshed |-> IF found # None THEN Append(st.meshed, position)
                                    ELSE st.meshed,
         rebuild |-> left,
         visited |-> st.visited \cup {position},
         removed |-> st.removed \cup (st.rebuild \ left)]

\* for position in positions { ... }: the HashSet yields its elements in an
\* unspecified order, so every order is possible.
RECURSIVE rebuild_loop(_, _, _)
rebuild_loop(positions, st, fresh) ==
    IF positions = {} THEN { st }
    ELSE IF cap_reached(st.rebuilt) THEN { st }
    ELSE UNION { rebuild_loop(positions \ {step.position}, step.st, fresh) :
                   step \in { [position |-> position,
                               st |-> visit(st, position, fresh)] :
                              position \in positions } }

\* Every possible result of rebuild_chunks on (map, set).
rebuild_chunks(map, set) ==
    UNION { rebuild_loop(set, [chunks |-> map, rebuild |-> set, rebuilt |-> 0,
                               visited |-> {}, removed |-> {},
                               meshed |-> << >>], fresh) :
              fresh \in { { [position |-> p, chunk |-> remesh(map[p])] :
                              p \in set \cap DOMAIN map } } }

ChunkManagerNew(map) ==
    /\ chunks = map
    /\ rebuild = {}
    /\ render = {}
    /\ old_chunk_pos = None
    /\ last = Idle("new")

\* ChunkManager::default(width): full chunks on the square around the origin.
\* Rust's integer division truncates toward zero.
ChunkManagerDefault(width) ==
    LET half == width \div 2
    IN  [p \in { << x, 0, z >> : x \in (-half) .. half, z \in (-half) .. half }
            |-> ChunkFull(0, p)]

\* A transition that replaces the rebuild set as it replaces render.
queue_replacing(set, marked, moved) == IF moved THEN marked ELSE set

\* self.rebuild.insert(position) for each marked position of the window:
\* the set keeps what it held.  Outside a transition nothing is marked.
queue(set, marked, moved) == set \cup marked

Update(camera) ==
    LET c == camera_chunk_pos(camera)
        old == IF old_chunk_pos # None THEN old_chunk_pos[1]
               ELSE << c[1], c[2] - 1, c[3] >>
        moved == crossed(old, c)
        marked == IF moved
                  THEN { p \in window(c) : get_chunk(chunks, p) # None
                                           /\ unmeshed(get_chunk(chunks, p)[1]) }
                  ELSE {}
        new_render == { p \in window(c) : p \in DOMAIN chunks }
    IN  \E out \in rebuild_chunks(chunks, queue(rebuild, marked, moved)) :
            /\ chunks' = out.chunks
            /\ rebuild' = out.rebuild
            /\ render' = IF moved THEN new_render ELSE render
            /\ old_chunk_pos' = Some(c)
            /\ last' = [Idle("update") EXCEPT
                            !.camera = Some(camera), !.transition = moved,
                            !.first = (old_chunk_pos = None),
                            !.marked = marked, !.visited = out.visited,
                            !.removed = out.removed, !.meshed = out.meshed]

RebuildChunks ==
    \E out \in rebuild_chunks(chunks, rebuild) :
        /\ chunks' = out.chunks
        /\ rebuild' = out.rebuild
        /\ last' = [Idle("rebuild_chunks") EXCEPT
                        !.visited = out.visited, !.removed = out.removed,
                        !.meshed = out.meshed]
        /\ UNCHANGED << render, old_chunk_pos >>

\* An insert that replaces the chunk already stored at the position.
add_chunk_overwrite(map, chunk) ==
    [p \in DOMAIN map \cup {chunk.position} |->
        IF p = chunk.position THEN chunk ELSE map[p]]

\* add_chunk: return early when the key is taken, else HashMap::insert.
add_chunk(map, chunk) ==
    IF chunk.position \in DOMAIN map
    THEN map
    ELSE [p \in DOMAIN map \cup {chunk.position} |->
             IF p = chunk.position THEN chunk ELSE map[p]]

\* An add_chunk that also queues the position of the chunk for meshing.
AddChunkQueueing(chunk) ==
    /\ chunks' = add_chunk(chunks, chunk)
    /\ rebuild' = rebuild \cup {chunk.position}
    /\ last' = Idle("add_chunk")
    /\ UNCHANGED << render, old_chunk_pos >>

AddChunk(chunk) ==
    /\ chunks' = add_chunk(chunks, chunk)
    /\ last' = Idle("add_chunk")
    /\ UNCHANGED << rebuild, render, old_chunk_pos >>

\* A collaborator marks a position dirty through the public rebuild field.
MarkDirty(position) ==
    /\ rebuild' = rebuild \cup {position}
    /\ last' = Idle("mark_dirty")
    /\ UNCHANGED << chunks, render, old_chunk_pos >>

\* The commands draw_mesh records on the render pass: the two buffers bound
\* and the index range drawn.  position names the chunk the mesh belongs to.
draw_mesh(position, chunk_mesh) ==
    [position |-> position,
     vertex_buffer |-> chunk_mesh.vertex_buffer,
     index_buffer |-> chunk_mesh.index_buffer,
     indices |-> << 0, chunk_mesh.num_elements >>]

\* A draw path that draws every meshed chunk of the map.
draw_chunks_all(map, set) ==
    [call \in { draw_mesh(p, map[p].mesh[1]) :
                    p \in { q \in DOMAIN map : map[q].mesh # None } } |-> 1]

\* The draw_mesh calls of draw_chunks, as a bag: how often each was issued.
\* The loop runs over the HashSet in its iteration order; the bag is the
\* same for every order.
RECURSIVE draw_chunks(_, _)
draw_chunks(map, set) ==
    IF set = {} THEN << >>
    ELSE LET chunk_position == CHOOSE p \in set : TRUE
             chunk == get_chunk(map, chunk_position)
             rest == draw_chunks(map, set \ {chunk_position})
         IN  IF chunk = None THEN rest
             ELSE IF chunk[1].mesh # None
                  THEN rest (+) SetToBag({ draw_mesh(chunk_position, chunk[1].mesh[1]) })
                  ELSE rest

\* World::render hands the manager to draw_chunks each frame.
DrawChunks ==
    /\ last' = [Idle("draw_chunks") EXCEPT !.drawn = draw_chunks(chunks, render)]
    /\ UNCHANGED << chunks, rebuild, render, old_chunk_pos >>

\* The arguments and the returned value of a block call, for the history.
EditLog(block, position, returned) ==
    Some([block |-> block, position |-> position, returned |-> returned])

\* Collaborators edit, query and mesh a chunk obtained through get_chunk_mut
\* or get_chunk.  logged says whether the history keeps the arguments.
InsertBlockLogging(cp, block, position, logged) ==
    /\ cp \in DOMAIN chunks
    /\ chunks' = [chunks EXCEPT ![cp] = insert_block(@, block, position)]
    /\ last' = [Idle("insert_block") EXCEPT
                    !.edit = IF logged THEN EditLog(Some(block), position, FALSE)
                             ELSE None]
    /\ UNCHANGED << rebuild, render, old_chunk_pos >>

InsertBlock(cp, block, position) == InsertBlockLogging(cp, block, position, FALSE)

RemoveBlockLogging(cp, position, logged) ==
    /\ cp \in DOMAIN chunks
    /\ chunks' = [chunks EXCEPT ![cp] = remove_block(@, position)]
    /\ last' = [Idle("remove_block") EXCEPT
                    !.edit = IF logged THEN EditLog(None, position, FALSE)
                             ELSE None]
    /\ UNCHANGED << rebuild, render, old_chunk_pos >>

RemoveBlock(cp, position) == RemoveBlockLogging(cp, position, FALSE)

BlockActive(cp, position) ==
    /\ cp \in DOMAIN chunks
    /\ last' = [Idle("block_active") EXCEPT
                    !.edit = EditLog(None, position,
                                     block_active(chunks[cp], position))]
    /\ UNCHANGED << chunks, rebuild, render, old_chunk_pos >>

GreedyMesh(cp) ==
    /\ cp \in DOMAIN chunks
    /\ LET calls == greedy_quads(chunks[cp])
       IN  /\ chunks' = [p \in DOMAIN chunks |->
                            IF p = cp THEN mesh_from_quads(chunks[cp], calls)
                            ELSE chunks[p]]
           /\ last' = [Idle("greedy_mesh") EXCEPT
                           !.meshed = << cp >>, !.quads = calls,
                           !.had_mesh = (chunks[cp].mesh # None)]
    /\ UNCHANGED << rebuild, render, old_chunk_pos >>

(* ------------------------------------------------------------------ *)
(* The streaming specification.                                        *)
(* ------------------------------------------------------------------ *)

\* Positions that collaborators mark dirty.
ChunkUniverse == { << 0, 0, 0 >>, << 3, 0, 0 >>, << 0, 1, 0 >> }

\* Observer positions of the streaming specification.
CameraInputs ==
    { << F32(FALSE, x * Den), F32(s, y * Den), F32(FALSE, 0) >> :
        x \in {0, 40}, s \in BOOLEAN, y \in {16} }

Init ==
    \E map \in { << >>, ChunkManagerDefault(1) } : ChunkManagerNew(map)

UpdateStep == \E camera \in CameraInputs : Update(camera)

AddChunkStep == \E chunk \in ChunkInputs : AddChunk(chunk)

MarkDirtyStep == \E p \in ChunkUniverse : MarkDirty(p)

Next ==
    \/ UpdateStep
    \/ RebuildChunks
    \/ AddChunkStep
    \/ MarkDirtyStep
    \/ DrawChunks

Spec == Init /\ [][Next]_vars

(* ------------------------------------------------------------------ *)
(* The draining specification: rebuild_chunks alone, called every      *)
(* frame, on any chunk map and any rebuild set.                        *)
(* ------------------------------------------------------------------ *)

\* Positions a collaborator may have put into rebuild.
DirtyUniverse == ChunkUniverse \cup { << 0, 2, 0 >>, << -3, 0, 0 >> }

\* The chunk maps built from ChunkInputs, one chunk per position.
ChunkMaps ==
    { map \in UNION { [ps -> ChunkInputs] : ps \in SUBSET ChunkUniverse } :
        \A p \in DOMAIN map : map[p].position = p }

InitDrain ==
    \E map \in ChunkMaps, set \in SUBSET DirtyUniverse :
        /\ chunks = map
        /\ rebuild = set
        /\ render = {}
        /\ old_chunk_pos = None
        /\ last = Idle("new")

NextDrain == RebuildChunks

\* update calls rebuild_chunks once per frame.
DrainSpec == InitDrain /\ [][NextDrain]_vars /\ WF_vars(NextDrain)

(* ------------------------------------------------------------------ *)
(* The settling specification: update called every frame by an         *)
(* observer that stays in the chunk of its first update, on any chunk  *)
(* map and any rebuild set, with no other call.                        *)
(* ------------------------------------------------------------------ *)

SettleUpdate ==
    \E camera \in CameraInputs :
        /\ old_chunk_pos # None => camera_chunk_pos(camera) = old_chunk_pos[1]
        /\ Update(camera)

NextSettle == SettleUpdate

\* World::update calls chunks.update once per frame.
SettleSpec == InitDrain /\ [][NextSettle]_vars /\ WF_vars(NextSettle)

(* ------------------------------------------------------------------ *)
(* The edit-while-streaming specification: the manager of              *)
(* ChunkManager::default, its chunk edited through get_chunk_mut while *)
(* update runs and a collaborator marks positions dirty.               *)
(* ------------------------------------------------------------------ *)

\* The chunk under edit and the block positions edited in it.
StreamChunkPos == << 0, 0, 0 >>

StreamPositions == { << 0, 0, 0 >>, << 1, 1, 1 >> }

InitStream == ChunkManagerNew(ChunkManagerDefault(1))

StreamInsertStep ==
    \E position \in StreamPositions :
        InsertBlock(StreamChunkPos, BlockNew(0), position)

StreamRemoveStep ==
    \E position \in StreamPositions : RemoveBlock(StreamChunkPos, position)

NextStream ==
    \/ UpdateStep
    \/ StreamInsertStep
    \/ StreamRemoveStep
    \/ MarkDirtyStep

StreamSpec == InitStream /\ [][NextStream]_vars

(* ------------------------------------------------------------------ *)
(* The coordinate specification: update on a manager without chunks,   *)
(* over a grid of observer positions.                                  *)
(* ------------------------------------------------------------------ *)

\* Every coordinate of magnitude at most MaxCoord, with both signs of zero.
CoordValues == { F32(sign, mag) : sign \in BOOLEAN, mag \in 0 .. (MaxCoord * Den) }

\* The observer moves along the diagonal x = y = z and along x = y = -z.
CoordInputs ==
    { << f, f, F32(f.sign, f.mag) >> : f \in CoordValues }
        \cup { << f, f, F32(~f.sign, f.mag) >> : f \in CoordValues }

InitCoord == ChunkManagerNew(<< >>)

NextCoord == \E camera \in CoordInputs : Update(camera)

CoordSpec == InitCoord /\ [][NextCoord]_vars

(* ------------------------------------------------------------------ *)
(* The meshing specification: one chunk, edited and meshed.            *)
(* ------------------------------------------------------------------ *)

\* Position of the chunk under edit.
MeshChunkPos == << 1, 0, -1 >>

\* Blocks handed to insert_block.
BlockInputs == { BlockNew(0), [id |-> 0, is_active |-> FALSE] }

\* Block coordinates handed to insert_block and remove_block: the low
\* border, its neighbour and the high border of the chunk.
CoordInRange == { 0, 1, CHUNK_SIZE - 1 }

\* Block positions in range, and positions beyond the limit on each axis.
InRange == { << x, y, z >> : x \in CoordInRange, y \in CoordInRange,
                             z \in CoordInRange }

OutOfRange ==
    { << CHUNK_SIZE, 0, 0 >>, << 0, CHUNK_SIZE, 0 >>, << 0, 0, CHUNK_SIZE >>,
      << CHUNK_SIZE + 1, CHUNK_SIZE, CHUNK_SIZE >> }

PositionInputs == InRange \cup OutOfRange

\* The chunk is within MaxEdits slots of Chunk::new or of Chunk::full; a
\* chunk holding an inactive block differs in that slot only.  (odd: the
\* occupied slots that hold something else than the block of Chunk::full.)
NearCanonical(chunk) ==
    LET occupied == { s \in Slots : chunk.blocks[s] # None }
        odd == { s \in occupied : chunk.blocks[s] # Some(BlockNew(0)) }
        holes == CHUNK_3D_SIZE - Cardinality(occupied) + Cardinality(odd)
    IN  IF \A s \in odd : chunk.blocks[s][1].is_active
        THEN Cardinality(occupied) <= MaxEdits \/ holes <= MaxEdits
        ELSE Cardinality(occupied) = 1 \/ holes = 1

InitMesh ==
    \E chunk \in { ChunkNew(0, MeshChunkPos), ChunkFull(0, MeshChunkPos) } :
        ChunkManagerNew([p \in {MeshChunkPos} |-> chunk])

InsertBlockStep ==
    \E block \in BlockInputs, position \in PositionInputs :
        /\ InsertBlock(MeshChunkPos, block, position)
        /\ NearCanonical(chunks'[MeshChunkPos])

RemoveBlockStep ==
    \E position \in PositionInputs :
        /\ RemoveBlock(MeshChunkPos, position)
        /\ NearCanonical(chunks'[MeshChunkPos])

GreedyMeshStep == GreedyMesh(MeshChunkPos)

NextMesh ==
    \/ InsertBlockStep
    \/ RemoveBlockStep
    \/ GreedyMeshStep

MeshSpec == InitMesh /\ [][NextMesh]_vars

(* ------------------------------------------------------------------ *)
(* The editing specification: one chunk, its block calls logged with    *)
(* their arguments.                                                    *)
(* ------------------------------------------------------------------ *)

\* Every in-range block position.
AllInRange ==
    { << x, y, z >> : x \in 0 .. (CHUNK_SIZE - 1), y \in 0 .. (CHUNK_SIZE - 1),
                      z \in 0 .. (CHUNK_SIZE - 1) }

\* Positions handed to the logged block calls: two corners, a border
\* position, an inner one, and the positions beyond the limit.
EditPositions ==
    { << 0, 0, 0 >>, << 0, CHUNK_SIZE - 1, 1 >>, << 1, 1, 1 >>,
      << CHUNK_SIZE - 1, CHUNK_SIZE - 1, CHUNK_SIZE - 1 >> } \cup OutOfRange

InsertBlockLogged ==
    \E block \in BlockInputs, position \in EditPositions :
        InsertBlockLogging(MeshChunkPos, block, position, TRUE)

RemoveBlockLogged ==
    \E position \in EditPositions :
        RemoveBlockLogging(MeshChunkPos, position, TRUE)

BlockActiveStep ==
    \E position \in EditPositions : BlockActive(MeshChunkPos, position)

NextEdit ==
    \/ InsertBlockLogged
    \/ RemoveBlockLogged
    \/ BlockActiveStep

EditSpec == InitMesh /\ [][NextEdit]_vars

(* ------------------------------------------------------------------ *)
(* The neighbour specification: a chunk under edit, with or without a  *)
(* chunk next to it along x, each meshed by greedy_mesh.               *)
(* ------------------------------------------------------------------ *)

PairA == MeshChunkPos

PairB == << MeshChunkPos[1] + 1, MeshChunkPos[2], MeshChunkPos[3] >>

\* Block positions edited in PairA: on its border towards PairB two corners
\* and a block inside the face, and one block in the layer behind the border.
PairPositions ==
    { << CHUNK_SIZE - 1, 0, 0 >>, << CHUNK_SIZE - 1, CHUNK_SIZE - 1, 0 >>,
      << CHUNK_SIZE - 1, 1, 1 >>, << CHUNK_SIZE - 2, 1, 0 >> }

\* The chunk maps of the neighbour specification.
PairMaps ==
    { [p \in {PairA} |-> a] : a \in { ChunkNew(0, PairA), ChunkFull(0, PairA) } }
    \cup
    { [p \in {PairA, PairB} |-> IF p = PairA THEN a ELSE b] :
        a \in { ChunkNew(0, PairA), ChunkFull(0, PairA) },
        b \in { ChunkNew(1, PairB), ChunkFull(1, PairB) } }

InitPair == \E map \in PairMaps : ChunkManagerNew(map)

PairInsertStep ==
    \E position \in PairPositions : InsertBlock(PairA, BlockNew(0), position)

PairRemoveStep ==
    \E position \in PairPositions : RemoveBlock(PairA, position)

PairMeshStep == \E cp \in {PairA, PairB} : GreedyMesh(cp)

NextPair ==
    \/ PairInsertStep
    \/ PairRemoveStep
    \/ PairMeshStep

PairSpec == InitPair /\ [][NextPair]_vars

(* ------------------------------------------------------------------ *)
(* Properties.                                                         *)
(* ------------------------------------------------------------------ *)

\* The last call ran the rebuild loop.
IsRebuildCall == last.op \in { "update", "rebuild_chunks" }

\* C1 (as amended): one call of rebuild_chunks removes at most
\* MAX_REBUILD_FRAME entries whose position has a chunk; entries without a
\* chunk are removed without counting toward the cap.
C1_AtMostCapChunkEntriesRemoved ==
    IsRebuildCall =>
        Cardinality(last.removed \cap DOMAIN chunks) <= MAX_REBUILD_FRAME

\* Two chunk entries were removed and a third chunk entry is still queued.
C1_Witness ==
    /\ last.op = "rebuild_chunks"
    /\ Cardinality(last.removed \cap DOMAIN chunks) = MAX_REBUILD_FRAME
    /\ rebuild \cap DOMAIN chunks # {}

\* C1 as stated: at most MAX_REBUILD_FRAME entries removed per call,
\* entries without a chunk included.
C1_Original ==
    IsRebuildCall => Cardinality(last.removed) <= MAX_REBUILD_FRAME

\* C2: called again and again with no marking in between, rebuild_chunks
\* empties the rebuild set, and every call on a non-empty set removes at
\* least one entry.
C2_Drains ==
    /\ <>(rebuild = {})
    /\ [][rebuild # {} => Cardinality(rebuild') < Cardinality(rebuild)]_vars

\* The set is empty after a drain that took more than one call.
C2_Witness ==
    /\ last.op = "rebuild_chunks"
    /\ rebuild = {}
    /\ last.removed # {}
    /\ Cardinality({ p \in DOMAIN chunks : chunks[p].is_active }) > MAX_REBUILD_FRAME

\* C3 as stated: right after a transition to centre c the visible set is
\* the set of existing chunks within render_dist of c on every axis, at
\* height >= 0.
C3_VisibleIsCube ==
    (last.op = "update" /\ last.transition) =>
        LET c == old_chunk_pos[1]
        IN  render = { p \in DOMAIN chunks :
                         /\ Abs(p[1] - c[1]) <= RENDER_DIST
                         /\ Abs(p[3] - c[3]) <= RENDER_DIST
                         /\ Abs(p[2] - c[2]) <= RENDER_DIST
                         /\ p[2] >= 0 }

\* C7: an update whose derived coordinate equals old_chunk_pos leaves the
\* visible set alone and adds nothing to the rebuild set; an update repeated
\* with the same position is never a transition.
C7_NoTransitionOnSameCoordinate ==
    [][ /\ (/\ last'.op = "update"
            /\ old_chunk_pos = Some(camera_chunk_pos(last'.camera[1])))
           => /\ ~last'.transition
              /\ render' = render
              /\ rebuild' \subseteq rebuild
              /\ last'.marked = {}
        /\ (/\ last.op = "update"
            /\ last'.op = "update"
            /\ last'.camera = last.camera)
           => /\ ~last'.transition
              /\ render' = render ]_vars

\* An update without transition, although recomputing the window would have
\* changed the visible set.
C7_Witness ==
    /\ last.op = "update"
    /\ ~last.transition
    /\ render # window(old_chunk_pos[1]) \cap DOMAIN chunks

\* C8: the chunk coordinate is floor((p + 8) / 16) for p >= 0 and
\* ceil((p - 8) / 16) for p < 0 on the horizontal axes, floor(p / 16) for
\* p >= 0 and ceil(p / 16) for p < 0 on the vertical axis.  (c is the floor
\* of a / b iff b * c <= a < b * (c + 1), the ceiling iff
\* b * (c - 1) < a <= b * c.)
C8_CoordinateRule ==
    last.op = "update" =>
        LET c == old_chunk_pos[1]
            p == [k \in 1 .. 3 |-> num(last.camera[1][k])]
            S16 == 16 * Den
            IsFloor(v, a) == S16 * v <= a /\ a < S16 * (v + 1)
            IsCeil(v, a) == S16 * (v - 1) < a /\ a <= S16 * v
        IN  /\ \A k \in {1, 3} :
                IF p[k] >= 0 THEN IsFloor(c[k], p[k] + 8 * Den)
                             ELSE IsCeil(c[k], p[k] - 8 * Den)
            /\ IF p[2] >= 0 THEN IsFloor(c[2], p[2]) ELSE IsCeil(c[2], p[2])

\* A negative position just beyond the half-chunk offset: x = y = -(8 + 1/Den).
C8_Witness ==
    /\ last.op = "update"
    /\ last.camera[1][1] = F32(TRUE, 8 * Den + 1)
    /\ old_chunk_pos[1][1] = -1
    /\ old_chunk_pos[1][2] = 0

\* C9: on a transition an existing chunk inside the iterated window is
\* inserted into rebuild iff its mesh is absent at that moment, whatever its
\* is_active; update never queues a chunk that has a mesh.
C9_MarkedIffMeshAbsent ==
    [][ last'.op = "update" =>
          /\ last'.transition =>
                last'.marked = { p \in window(old_chunk_pos'[1]) \cap DOMAIN chunks :
                                    chunks[p].mesh = None }
          /\ ~last'.transition => last'.marked = {}
          /\ last'.marked \subseteq rebuild' \cup last'.removed ]_vars

\* A chunk meshed before this update, left without geometry, queued again by
\* the transition and still waiting.
C9_Witness ==
    /\ last.op = "update"
    /\ last.transition
    /\ \E p \in last.marked :
          /\ p \in rebuild
          /\ chunks[p].is_active
          /\ chunks[p].mesh = None

\* C10: one call of rebuild_chunks invokes greedy_mesh on at most 2 chunks.
C10_AtMostCapMeshed ==
    IsRebuildCall => Len(last.meshed) <= MAX_REBUILD_FRAME

\* An update meshed two chunks and left a third one queued.
C10_Witness ==
    /\ last.op = "update"
    /\ Len(last.meshed) = MAX_REBUILD_FRAME
    /\ rebuild \cap DOMAIN chunks # {}

\* The chunk of the meshing specification and its origin in world space.
TheChunk == chunks[MeshChunkPos]

ChunkOrigin ==
    << MeshChunkPos[1] * CHUNK_SIZE, MeshChunkPos[2] * CHUNK_SIZE,
       MeshChunkPos[3] * CHUNK_SIZE >>

vadd(a, b) == << a[1] + b[1], a[2] + b[2], a[3] + b[3] >>

\* The chunk holds exactly one block, at b, and it is active.
SingleActiveAt(chunk, b) ==
    /\ { s \in Slots : chunk.blocks[s] # None } = { slot_index(b) }
    /\ chunk.blocks[slot_index(b)][1].is_active

\* Every slot holds an active block.
FullActive(chunk) ==
    \A s \in Slots : chunk.blocks[s] # None /\ chunk.blocks[s][1].is_active

\* The rectangle of a Block::quad call, without its normal.
Rect(q) == [width |-> q.width, height |-> q.height, position |-> q.position]

\* The six rectangles of edge length len around the cube at corner.
CubeFaces(corner, len) ==
    { [width |-> unit((d + 1) % 3, len),
       height |-> unit((d + 2) % 3, len),
       position |-> vadd(corner, unit(d, k * len))] : d \in Axes, k \in {0, 1} }

\* C4: a chunk holding a single active block meshes to exactly 6 quads
\* (24 vertices, 36 indices), the six unit faces of that block, wherever in
\* the chunk the block is.
C4_SingleBlockSixFaces ==
    last.op = "greedy_mesh" =>
        \A b \in InRange :
            SingleActiveAt(TheChunk, b) =>
                /\ Len(last.quads) = 6
                /\ { Rect(last.quads[k]) : k \in 1 .. Len(last.quads) }
                       = CubeFaces(vadd(ChunkOrigin, b), 1)
                /\ TheChunk.mesh # None
                /\ TheChunk.mesh[1].vertex_buffer.size = 24
                /\ TheChunk.mesh[1].index_buffer.size = 36
                /\ TheChunk.mesh[1].num_elements = 36

\* A block on the low border of x and the high border of y was meshed.
C4_Witness ==
    /\ last.op = "greedy_mesh"
    /\ SingleActiveAt(TheChunk, << 0, CHUNK_SIZE - 1, 1 >>)
    /\ Len(last.quads) = 6

\* C5: a chunk full of active blocks meshes to exactly 6 quads, each
\* CHUNK_SIZE wide and high, the six outer faces of the chunk.
C5_FullChunkSixFaces ==
    (last.op = "greedy_mesh" /\ FullActive(TheChunk)) =>
        /\ Len(last.quads) = 6
        /\ { Rect(last.quads[k]) : k \in 1 .. Len(last.quads) }
               = CubeFaces(ChunkOrigin, CHUNK_SIZE)

\* A full chunk was meshed.
C5_Witness ==
    /\ last.op = "greedy_mesh"
    /\ FullActive(TheChunk)
    /\ TheChunk.mesh # None

\* C6 as stated: each of the six quads of a single block is passed the
\* outward normal of its face: -unit(d) on the lower face along axis d,
\* +unit(d) on the upper one.
C6_OutwardNormals ==
    last.op = "greedy_mesh" =>
        \A b \in InRange :
            SingleActiveAt(TheChunk, b) =>
                \A k \in 1 .. Len(last.quads), d \in Axes :
                    LET q == last.quads[k]
                        low == vadd(ChunkOrigin, b)[d + 1]
                    IN  q.width = unit((d + 1) % 3, 1) =>
                            q.normal = IF q.position[d + 1] = low
                                       THEN unit(d, -1)
                                       ELSE unit(d, 1)

\* C11: every position the loop of rebuild_chunks processes is removed from
\* rebuild, whether its chunk ends up with a mesh, without one, or does not
\* exist; a position enters rebuild only through a transition of update or
\* through a collaborator.
C11_ProcessedIsRemoved ==
    [][ /\ last'.op \in { "update", "rebuild_chunks" } =>
              /\ last'.visited \cap rebuild' = {}
              /\ last'.removed = last'.visited
              /\ \A k \in 1 .. Len(last'.meshed) : last'.meshed[k] \in last'.visited
        /\ \A p \in rebuild' \ rebuild :
              \/ last'.op = "mark_dirty"
              \/ /\ last'.op = "update"
                 /\ last'.transition
                 /\ p \in last'.marked ]_vars

\* One call processed a position without chunk, a chunk left without mesh and
\* a chunk left with a mesh; none of them is queued any more.
C11_Witness ==
    /\ last.op = "rebuild_chunks"
    /\ last.visited \cap rebuild = {}
    /\ \E p \in last.visited : p \notin DOMAIN chunks
    /\ \E p \in last.visited \cap DOMAIN chunks : chunks[p].mesh = None
    /\ \E p \in last.visited \cap DOMAIN chunks : chunks[p].mesh # None

\* C12: after greedy_mesh the chunk's is_active is true, its mesh is present
\* iff at least one quad was emitted, and that is the case iff the chunk
\* holds at least one active block; with no quad a cached mesh is cleared.
C12_MeshIffActiveBlock ==
    last.op = "greedy_mesh" =>
        LET chunk == chunks[last.meshed[1]]
        IN  /\ chunk.is_active
            /\ chunk.mesh # None <=> Len(last.quads) > 0
            /\ Len(last.quads) > 0 <=>
                   \E s \in Slots : /\ chunk.blocks[s] # None
                                    /\ chunk.blocks[s][1].is_active

\* greedy_mesh found a cached mesh, emitted no quad and left no mesh.
C12_Witness ==
    /\ last.op = "greedy_mesh"
    /\ last.had_mesh
    /\ last.quads = << >>
    /\ chunks[last.meshed[1]].mesh = None
    /\ chunks[last.meshed[1]].is_active

\* C13: the manager holds one chunk per position, stored under its own
\* position, and an add_chunk at an occupied position changes nothing: every
\* chunk stored before the call is still there, unchanged.
C13_AddChunkKeepsFirst ==
    /\ \A p \in DOMAIN chunks : chunks[p].position = p
    /\ [][ /\ \A p \in DOMAIN chunks' : chunks'[p].position = p
           /\ last'.op = "add_chunk" =>
                 /\ \A p \in DOMAIN chunks :
                       p \in DOMAIN chunks' /\ chunks'[p] = chunks[p]
                 /\ Cardinality(DOMAIN chunks') <= Cardinality(DOMAIN chunks) + 1
         ]_vars

\* The only chunk stored has been meshed and the last call was an add_chunk:
\* its chunk (all inputs are unmeshed) was refused.
C13_Witness ==
    /\ last.op = "add_chunk"
    /\ DOMAIN chunks = { << 0, 0, 0 >> }
    /\ chunks[<< 0, 0, 0 >>].is_active

DrawsAt(p) ==
    LET calls == { call \in DOMAIN last.drawn : call.position = p }
        RECURSIVE Sum(_)
        Sum(cs) == IF cs = {} THEN 0
                   ELSE LET c == CHOOSE x \in cs : TRUE
                        IN  last.drawn[c] + Sum(cs \ {c})
    IN  Sum(calls)

\* C19: draw_chunks issues exactly one draw, of the chunk's own mesh, for
\* each visible position whose chunk exists and has a mesh, and none for a
\* position without chunk, a chunk without mesh, or a chunk outside the
\* visible set.
C19_DrawsVisibleMeshes ==
    last.op = "draw_chunks" =>
        /\ \A p \in DOMAIN chunks \cup render \cup ChunkUniverse :
               DrawsAt(p) = IF /\ p \in render
                               /\ p \in DOMAIN chunks
                               /\ chunks[p].mesh # None
                            THEN 1 ELSE 0
        /\ \A call \in DOMAIN last.drawn :
               /\ call.position \in DOMAIN chunks
               /\ chunks[call.position].mesh # None
               /\ call = draw_mesh(call.position, chunks[call.position].mesh[1])

\* A frame drew the visible meshed chunk (0,0,0) once, skipped the visible
\* chunk (0,1,0), which was meshed and has no mesh, and skipped the meshed
\* chunk (3,0,0), which is outside the visible set.
C19_Witness ==
    /\ last.op = "draw_chunks"
    /\ render = { << 0, 0, 0 >>, << 0, 1, 0 >> }
    /\ DOMAIN chunks = ChunkUniverse
    /\ chunks[<< 0, 1, 0 >>].is_active
    /\ chunks[<< 0, 1, 0 >>].mesh = None
    /\ chunks[<< 3, 0, 0 >>].mesh # None
    /\ DrawsAt(<< 0, 0, 0 >>) = 1
    /\ DrawsAt(<< 0, 1, 0 >>) = 0
    /\ DrawsAt(<< 3, 0, 0 >>) = 0

(* ------------------------------------------------------------------ *)
(* Block calls on one chunk (EditSpec).                                *)
(* ------------------------------------------------------------------ *)

\* The call that the step into the primed state made, and its arguments.
EditCall(op) == last'.op = op /\ last'.edit # None

EditPosition == last'.edit[1].position

EditBlock == last'.edit[1].block[1]

SlotAt(map, position) == map[MeshChunkPos].blocks[slot_index(position)]

IsEdited(op) == last.op = op /\ last.edit # None

\* C14: insert_block on an in-range slot that already holds a block leaves
\* the chunk as it was; when two inserts at the same position follow each
\* other, the slot still holds what it held after the first.
C14_InsertKeepsOccupant ==
    [][ /\ ( /\ EditCall("insert_block")
             /\ in_limit(EditPosition)
             /\ SlotAt(chunks, EditPosition) # None )
           => chunks' = chunks
        /\ ( /\ IsEdited("insert_block")
             /\ EditCall("insert_block")
             /\ in_limit(EditPosition)
             /\ EditPosition = last.edit[1].position
             /\ SlotAt(chunks, EditPosition) = last.edit[1].block )
           => SlotAt(chunks', EditPosition) = last.edit[1].block ]_vars

\* An insert of the inactive block at (1,1,1) has left the block of
\* Chunk::full in that slot.
C14_Witness ==
    /\ IsEdited("insert_block")
    /\ last.edit[1].position = << 1, 1, 1 >>
    /\ last.edit[1].block = Some([id |-> 0, is_active |-> FALSE])
    /\ SlotAt(chunks, << 1, 1, 1 >>) = Some(BlockNew(0))

\* C15: a block call whose position has a coordinate of CHUNK_SIZE or more
\* changes no slot (insert_block, remove_block) and answers false
\* (block_active); a position that passes the range test indexes inside the
\* block array.
C15_OutOfRangeIsIgnored ==
    /\ \A position \in EditPositions :
           in_limit(position) => slot_index(position) \in Slots
    /\ DOMAIN chunks[MeshChunkPos].blocks = Slots
    /\ [][ \A op \in { "insert_block", "remove_block", "block_active" } :
               ( /\ EditCall(op)
                 /\ \E d \in Axes : EditPosition[d + 1] >= CHUNK_SIZE )
               => /\ chunks' = chunks
                  /\ last'.edit[1].returned = FALSE ]_vars

\* remove_block with y = CHUNK_SIZE has left the full chunk full.
C15_Witness ==
    /\ IsEdited("remove_block")
    /\ last.edit[1].position = << 0, CHUNK_SIZE, 0 >>
    /\ chunks[MeshChunkPos].blocks = ChunkFull(0, MeshChunkPos).blocks

\* block_active of every in-range position other than the edited one is what
\* it was before the step.
OthersKeep(position) ==
    /\ \A q \in AllInRange \ {position} :
           block_active(chunks'[MeshChunkPos], q)
               = block_active(chunks[MeshChunkPos], q)
    /\ \A s \in Slots \ {slot_index(position)} :
           chunks'[MeshChunkPos].blocks[s] = chunks[MeshChunkPos].blocks[s]

\* C16: remove_block at an in-range position empties that slot
\* (block_active is then false) and changes no other slot; insert_block at
\* an empty in-range slot, as after a removal, stores the new block; the
\* flattening (x * S + y) * S + z is injective on in-range positions, so an
\* edit at p never changes block_active(q) for q # p.
C16_RemoveThenInsert ==
    /\ \A p \in AllInRange, q \in AllInRange :
           p # q => slot_index(p) # slot_index(q)
    /\ [][ /\ ( EditCall("remove_block") /\ in_limit(EditPosition) )
              => /\ SlotAt(chunks', EditPosition) = None
                 /\ ~ block_active(chunks'[MeshChunkPos], EditPosition)
                 /\ OthersKeep(EditPosition)
           /\ ( /\ EditCall("insert_block")
                /\ in_limit(EditPosition)
                /\ SlotAt(chunks, EditPosition) = None )
              => /\ SlotAt(chunks', EditPosition) = Some(EditBlock)
                 /\ block_active(chunks'[MeshChunkPos], EditPosition)
                        = EditBlock.is_active
           /\ ( EditCall("insert_block") /\ in_limit(EditPosition) )
              => OthersKeep(EditPosition) ]_vars

\* In a chunk that started full, (1,1,1) was removed and an insert has
\* stored the inactive block there; every other slot is as Chunk::full
\* made it.
C16_Witness ==
    /\ IsEdited("insert_block")
    /\ last.edit[1].position = << 1, 1, 1 >>
    /\ SlotAt(chunks, << 1, 1, 1 >>) = Some([id |-> 0, is_active |-> FALSE])
    /\ \A s \in Slots \ {slot_index(<< 1, 1, 1 >>)} :
           chunks[MeshChunkPos].blocks[s] = Some(BlockNew(0))

(* ------------------------------------------------------------------ *)
(* Meshing next to another chunk (PairSpec).                           *)
(* ------------------------------------------------------------------ *)

\* The chunk the last greedy_mesh call was made on.
MeshedChunk == chunks[last.meshed[1]]

Cells == 0 .. (CHUNK_SIZE - 1)

\* The cell (i, j) of the plane at x[d] = plane (0 .. CHUNK_SIZE, counted
\* from the chunk's origin) is exposed: of the chunk's own two blocks on
\* either side of it exactly one is active, a block beyond the chunk
\* counting as absent.
Exposed(chunk, d, plane, i, j) ==
    LET below == IF plane >= 1
                 THEN block_active(chunk, coords(d, plane - 1, i, j))
                 ELSE FALSE
        above == IF plane <= CHUNK_SIZE - 1
                 THEN block_active(chunk, coords(d, plane, i, j))
                 ELSE FALSE
    IN  below # above

\* The quad call q lies in that plane of the chunk and covers cell (i, j).
Covers(q, chunk, d, plane, i, j) ==
    LET u == (d + 1) % 3
        v == (d + 2) % 3
        i0 == q.position[u + 1] - chunk.position[u + 1] * CHUNK_SIZE
        j0 == q.position[v + 1] - chunk.position[v + 1] * CHUNK_SIZE
    IN  /\ q.normal = sweep_q(d)
        /\ q.position[d + 1] - chunk.position[d + 1] * CHUNK_SIZE = plane
        /\ i0 <= i /\ i < i0 + q.width[u + 1]
        /\ j0 <= j /\ j < j0 + q.height[v + 1]

\* The quad calls of the last greedy_mesh that lie in the plane.
QuadsOfPlane(chunk, d, plane) ==
    { n \in 1 .. Len(last.quads) :
        /\ last.quads[n].normal = sweep_q(d)
        /\ last.quads[n].position[d + 1] - chunk.position[d + 1] * CHUNK_SIZE = plane }

\* C17: the quads of a chunk are determined by its own blocks and position:
\* a cell of any sweep plane is covered, by exactly one quad, exactly when it
\* is exposed by the chunk's own blocks; on the six outer boundary planes
\* that is wherever the chunk's own border block is active, whether or not a
\* neighbouring chunk exists and whatever it holds, so a full chunk emits
\* its whole face towards a full neighbour.
C17_MeshIgnoresNeighbour ==
    last.op = "greedy_mesh" =>
        /\ \A d \in Axes, plane \in 0 .. CHUNK_SIZE, i \in Cells, j \in Cells :
              Cardinality({ n \in 1 .. Len(last.quads) :
                              Covers(last.quads[n], MeshedChunk, d, plane, i, j) })
                  = IF Exposed(MeshedChunk, d, plane, i, j) THEN 1 ELSE 0
        /\ \A d \in Axes, k \in {0, 1}, i \in Cells, j \in Cells :
              block_active(MeshedChunk, coords(d, k * (CHUNK_SIZE - 1), i, j))
                  <=> \E n \in 1 .. Len(last.quads) :
                         Covers(last.quads[n], MeshedChunk, d, k * CHUNK_SIZE, i, j)
        /\ FullActive(MeshedChunk) =>
              { Rect(last.quads[n]) : n \in 1 .. Len(last.quads) }
                  = CubeFaces(<< MeshedChunk.position[1] * CHUNK_SIZE,
                                 MeshedChunk.position[2] * CHUNK_SIZE,
                                 MeshedChunk.position[3] * CHUNK_SIZE >>, CHUNK_SIZE)

\* PairA and PairB are both full; PairB has its mesh, and the greedy_mesh of
\* PairA has emitted the face the two share.
C17_Witness ==
    /\ last.op = "greedy_mesh"
    /\ last.meshed = << PairA >>
    /\ PairB \in DOMAIN chunks
    /\ FullActive(chunks[PairA])
    /\ FullActive(chunks[PairB])
    /\ chunks[PairB].mesh # None
    /\ \E n \in 1 .. Len(last.quads) :
          Rect(last.quads[n])
              = [width |-> unit(1, CHUNK_SIZE), height |-> unit(2, CHUNK_SIZE),
                 position |-> << PairB[1] * CHUNK_SIZE, PairB[2] * CHUNK_SIZE,
                                 PairB[3] * CHUNK_SIZE >>]

\* The exposed cells of a sweep plane, as pairs (i, j).
ExposedCells(chunk, d, plane) ==
    { c \in Cells \X Cells : Exposed(chunk, d, plane, c[1], c[2]) }

\* The cells the n-th quad call covers in its plane.
QuadCells(chunk, d, plane, n) ==
    { c \in Cells \X Cells : Covers(last.quads[n], chunk, d, plane, c[1], c[2]) }

\* The w x h rectangle of cells whose first cell is c.
RectAt(c, w, h) == { << c[1] + a, c[2] + b >> : a \in 0 .. (w - 1), b \in 0 .. (h - 1) }

\* The first cell of a non-empty set in scan order: lowest j, then lowest i.
FirstCell(cells) ==
    CHOOSE c \in cells :
        \A e \in cells : c[2] < e[2] \/ (c[2] = e[2] /\ c[1] <= e[1])

\* The cells can be split into at most k axis-aligned rectangles.  In any
\* such split the first cell in scan order is the first cell of its
\* rectangle, so only rectangles starting there are tried.
RECURSIVE Coverable(_, _)
Coverable(cells, k) ==
    IF cells = {} THEN TRUE
    ELSE IF k <= 0 THEN FALSE
    ELSE LET c == FirstCell(cells)
         IN  \E w \in 1 .. CHUNK_SIZE, h \in 1 .. CHUNK_SIZE :
                /\ RectAt(c, w, h) \subseteq cells
                /\ Coverable(cells \ RectAt(c, w, h), k - 1)

\* C20 as stated: on every sweep plane the number of quads is the minimum
\* number of axis-aligned rectangles that exactly cover the exposed cells.
C20_Original ==
    last.op = "greedy_mesh" =>
        \A d \in Axes, plane \in 0 .. CHUNK_SIZE :
            LET cells == ExposedCells(MeshedChunk, d, plane)
                count == Cardinality(QuadsOfPlane(MeshedChunk, d, plane))
            IN  /\ Coverable(cells, count)
                /\ ~ Coverable(cells, count - 1) \/ cells = {}

\* C20, amended: on every sweep plane the quads split the exposed cells into
\* rectangles (each exposed cell in exactly one quad, no other cell in any),
\* no two quads of the plane can be merged into one rectangle, a plane whose
\* exposed cells are empty or form one rectangle gets 0 or 1 quad, and the
\* exposed cells can be split into as many rectangles as there are quads,
\* so the minimum is never above the number of quads; it can be below it.
C20_QuadsAreMergedGreedily ==
    last.op = "greedy_mesh" =>
        \A d \in Axes, plane \in 0 .. CHUNK_SIZE :
            LET cells == ExposedCells(MeshedChunk, d, plane)
                ns == QuadsOfPlane(MeshedChunk, d, plane)
            IN  /\ \A c \in Cells \X Cells :
                      Cardinality({ n \in ns : c \in QuadCells(MeshedChunk, d, plane, n) })
                          = IF c \in cells THEN 1 ELSE 0
                /\ \A n \in ns : QuadCells(MeshedChunk, d, plane, n) # {}
                /\ \A n1 \in ns, n2 \in ns :
                      n1 # n2 =>
                          ~ Coverable(QuadCells(MeshedChunk, d, plane, n1)
                                          \cup QuadCells(MeshedChunk, d, plane, n2), 1)
                /\ Coverable(cells, 1) => Cardinality(ns) <= 1
                /\ Coverable(cells, Cardinality(ns))

\* The full chunk PairA has lost the two corner blocks of its border towards
\* PairB; the plane of that border is meshed into 3 quads although its
\* exposed cells split into 2 rectangles.
C20_Witness ==
    /\ last.op = "greedy_mesh"
    /\ last.meshed = << PairA >>
    /\ Cardinality(QuadsOfPlane(MeshedChunk, 0, CHUNK_SIZE)) = 3
    /\ Coverable(ExposedCells(MeshedChunk, 0, CHUNK_SIZE), 2)

\* The exposed cell (i, j) of the plane has its occupied side on the
\* lower-coordinate cell.
LowerOccupied(chunk, d, plane, i, j) ==
    plane >= 1 /\ block_active(chunk, coords(d, plane - 1, i, j))

\* C21 as stated: the faces merged into one quad have the same orientation:
\* no quad covers both a face whose occupied side is the lower cell and a
\* face whose occupied side is the higher cell.
C21_SameOrientation ==
    last.op = "greedy_mesh" =>
        \A d \in Axes, plane \in 0 .. CHUNK_SIZE :
            \A n \in QuadsOfPlane(MeshedChunk, d, plane) :
                \A c1 \in QuadCells(MeshedChunk, d, plane, n),
                   c2 \in QuadCells(MeshedChunk, d, plane, n) :
                    LowerOccupied(MeshedChunk, d, plane, c1[1], c1[2])
                        = LowerOccupied(MeshedChunk, d, plane, c2[1], c2[2])

\* The rectangle of the n-th quad call, as cells (i, j) of its plane along
\* axis d, whether or not they lie inside the chunk.
QuadRect(chunk, d, n) ==
    LET u == (d + 1) % 3
        v == (d + 2) % 3
        q == last.quads[n]
    IN  RectAt(<< q.position[u + 1] - chunk.position[u + 1] * CHUNK_SIZE,
                  q.position[v + 1] - chunk.position[v + 1] * CHUNK_SIZE >>,
               q.width[u + 1], q.height[v + 1])

\* C22: for every sweep axis d and every plane index xd from -1 to
\* CHUNK_SIZE - 1 the rectangles emitted for the plane are pairwise disjoint
\* and their union is exactly the set of cells where the activity of the
\* blocks on the two sides of the plane differs, the cells beyond the chunk
\* counting as empty; every quad belongs to one of these planes.
C22_PlanesAreTiled ==
    last.op = "greedy_mesh" =>
        /\ \A d \in Axes, xd \in (-1) .. (CHUNK_SIZE - 1) :
              LET ns == QuadsOfPlane(MeshedChunk, d, xd + 1)
              IN  /\ \A n1 \in ns, n2 \in ns :
                        n1 # n2 => QuadRect(MeshedChunk, d, n1)
                                       \cap QuadRect(MeshedChunk, d, n2) = {}
                  /\ UNION { QuadRect(MeshedChunk, d, n) : n \in ns }
                         = ExposedCells(MeshedChunk, d, xd + 1)
        /\ \A n \in 1 .. Len(last.quads) :
              \E d \in Axes, xd \in (-1) .. (CHUNK_SIZE - 1) :
                  n \in QuadsOfPlane(MeshedChunk, d, xd + 1)

\* The mesh of PairA has, along x, one rectangle in the plane below the
\* chunk (xd = -1) and three in the plane of its upper border.
C22_Witness ==
    /\ last.op = "greedy_mesh"
    /\ last.meshed = << PairA >>
    /\ Cardinality(QuadsOfPlane(MeshedChunk, 0, 0)) = 1
    /\ Cardinality(QuadsOfPlane(MeshedChunk, 0, CHUNK_SIZE)) = 3
    /\ Cardinality(QuadsOfPlane(MeshedChunk, 0, CHUNK_SIZE - 1)) >= 1

(* ------------------------------------------------------------------ *)
(* Settling after a transition (SettleSpec).                           *)
(* ------------------------------------------------------------------ *)

\* The chunk holds at least one active block.
HasActive(chunk) ==
    \E s \in Slots : chunk.blocks[s] # None /\ chunk.blocks[s][1].is_active

\* Nothing is queued and every visible chunk with an active block has a mesh.
Settled ==
    /\ rebuild = {}
    /\ \A p \in render : HasActive(chunks[p]) => chunks[p].mesh # None

\* C23: after a transition, with every later update deriving the same chunk
\* coordinate and no other call, finitely many updates empty the rebuild set
\* and give every visible chunk that holds an active block its mesh, and it
\* stays so.
C23_SettlesAfterTransition == <>[]Settled

\* The observer stayed in its chunk and an update after the transition has
\* meshed the last queued chunk: two chunks are visible, the full one has
\* its mesh, the chunk outside the window was meshed as well.
C23_Witness ==
    /\ last.op = "update"
    /\ ~ last.transition
    /\ last.meshed # << >>
    /\ Settled
    /\ render = { << 0, 0, 0 >>, << 0, 1, 0 >> }
    /\ HasActive(chunks[<< 0, 0, 0 >>])
    /\ chunks[<< 0, 0, 0 >>].mesh # None

(* ------------------------------------------------------------------ *)
(* Index safety of greedy_mesh (PairSpec).                             *)
(* ------------------------------------------------------------------ *)

\* C24: in every plane of every axis the merge reads and writes the mask
\* only at indices below CHUNK_SIZE * CHUNK_SIZE, every emitted rectangle
\* has i + w <= CHUNK_SIZE and j + h <= CHUNK_SIZE, and every block_active
\* call of the mask computation receives coordinates inside
\* [0, CHUNK_SIZE): no access is out of bounds.
C24_IndicesInBounds ==
    last.op = "greedy_mesh" =>
        \A d \in Axes, xd \in (-1) .. (CHUNK_SIZE - 1) :
            /\ merge_accesses(compute_mask(MeshedChunk, d, xd), 0, 0, 0)
                   \subseteq 0 .. (CHUNK_SIZE * CHUNK_SIZE - 1)
            /\ mask_calls(d, xd) \subseteq AllInRange
            /\ \A p \in mask_calls(d, xd) : slot_index(p) \in Slots
            /\ \A n \in QuadsOfPlane(MeshedChunk, d, xd + 1) :
                  QuadRect(MeshedChunk, d, n) \subseteq Cells \X Cells

\* The full chunk PairB was meshed: on its upper border plane along x the
\* merge reaches the last mask index, and one rectangle spans the plane.
C24_Witness ==
    /\ last.op = "greedy_mesh"
    /\ last.meshed = << PairB >>
    /\ FullActive(MeshedChunk)
    /\ (CHUNK_SIZE * CHUNK_SIZE - 1)
           \in merge_accesses(compute_mask(MeshedChunk, 0, CHUNK_SIZE - 1), 0, 0, 0)
    /\ \E n \in QuadsOfPlane(MeshedChunk, 0, CHUNK_SIZE) :
          QuadRect(MeshedChunk, 0, n) = Cells \X Cells

(* ------------------------------------------------------------------ *)
(* Edits under streaming (StreamSpec).                                 *)
(* ------------------------------------------------------------------ *)

\* C25: insert_block and remove_block change nothing but the block slots of
\* their chunk: mesh and is_active of every chunk, rebuild, render and
\* old_chunk_pos are as before; and an update, transition or not, leaves the
\* mesh of every chunk that has one and whose position is not in rebuild as
\* it is, so the mesh of an edited chunk stays stale until the position is
\* put into rebuild.
C25_EditsLeaveMeshStale ==
    [][ /\ last'.op \in { "insert_block", "remove_block" } =>
              /\ DOMAIN chunks' = DOMAIN chunks
              /\ \A p \in DOMAIN chunks :
                    /\ chunks'[p].mesh = chunks[p].mesh
                    /\ chunks'[p].is_active = chunks[p].is_active
                    /\ chunks'[p].id = chunks[p].id
                    /\ chunks'[p].position = chunks[p].position
              /\ rebuild' = rebuild
              /\ render' = render
              /\ old_chunk_pos' = old_chunk_pos
        /\ last'.op = "update" =>
              \A p \in DOMAIN chunks :
                  (chunks[p].mesh # None /\ p \notin rebuild) =>
                      chunks'[p] = chunks[p] ]_vars

\* The mesh of the chunk is not the one greedy_mesh would build from its
\* blocks.
Stale(chunk) == chunk.mesh # None /\ chunk.mesh # greedy_mesh(chunk).mesh

\* The chunk was meshed, then edited, and an update that crossed a chunk
\* boundary has left it visible with its stale mesh.
C25_Witness ==
    /\ last.op = "update"
    /\ last.transition
    /\ StreamChunkPos \in render
    /\ StreamChunkPos \notin rebuild
    /\ Stale(chunks[StreamChunkPos])

(* ------------------------------------------------------------------ *)
(* RoamSpec: the observer moves between a window that holds every      *)
(* chunk and a window that leaves one out; rebuild is filled by update *)
(* only.                                                               *)
(* ------------------------------------------------------------------ *)

\* Observer positions: centre x = 2 sees all of ChunkUniverse, centre x = 0
\* all but the chunk at (3, 0, 0).
RoamInputs ==
    { << F32(FALSE, x * Den), F32(s, y * Den), F32(FALSE, 0) >> :
        x \in {0, 24}, s \in BOOLEAN, y \in {16} }

RoamUpdateStep == \E camera \in RoamInputs : Update(camera)

NextRoam ==
    \/ RoamUpdateStep
    \/ RebuildChunks
    \/ AddChunkStep
    \/ DrawChunks

RoamSpec == Init /\ [][NextRoam]_vars

(* ------------------------------------------------------------------ *)
(* The first update and add_chunk (Spec).                              *)
(* ------------------------------------------------------------------ *)

\* The chunk coordinate the update that led to the primed state derived.
Derived == camera_chunk_pos(last'.camera[1])

\* C26: an update called while old_chunk_pos is None performs a transition
\* whatever the observer position: render becomes the existing chunks of
\* the window, the chunks of the window without mesh are inserted into
\* rebuild, and old_chunk_pos holds the derived coordinate afterwards.  The
\* coordinate substituted for the missing one differs from the derived one
\* for every observer position of the coordinate grid.
C26_FirstUpdateIsTransition ==
    /\ \A camera \in CoordInputs \cup CameraInputs :
           LET c == camera_chunk_pos(camera)
           IN  crossed(<< c[1], c[2] - 1, c[3] >>, c)
    /\ [][ (last'.op = "update" /\ old_chunk_pos = None) =>
               /\ last'.first
               /\ last'.transition
               /\ render' = window(Derived) \cap DOMAIN chunks
               /\ last'.marked = { p \in window(Derived) \cap DOMAIN chunks :
                                     chunks[p].mesh = None }
               /\ \A p \in last'.marked : p \in rebuild' \/ p \in last'.removed
               /\ old_chunk_pos' = Some(Derived) ]_vars

\* The first update found one chunk of its window meshed and one not: it
\* made both visible and marked only the second.
C26_Witness ==
    /\ last.op = "update"
    /\ last.first
    /\ last.transition
    /\ old_chunk_pos = Some(camera_chunk_pos(last.camera[1]))
    /\ Cardinality(render) >= 2
    /\ last.marked # {}
    /\ render \ last.marked # {}

\* A chunk of the map that is neither visible nor queued for meshing.
Hidden(p) == p \in DOMAIN chunks /\ p \notin render /\ p \notin rebuild

\* The update that led to the primed state derived the coordinate that
\* old_chunk_pos held.
SameCoordinate ==
    /\ last'.op = "update"
    /\ old_chunk_pos # None
    /\ Derived = old_chunk_pos[1]

\* C27: add_chunk changes the chunk map only: render, rebuild and
\* old_chunk_pos are unchanged and the chunks already in the map are kept.
\* An update that derives the coordinate held by old_chunk_pos is no
\* transition and leaves render as it was, so a chunk that is neither visible
\* nor queued stays so, without mesh, through add_chunk, rebuild_chunks,
\* draw_chunks and every update that derives the same coordinate.
C27_AddChunkChangesMapOnly ==
    [][ /\ last'.op = "add_chunk" =>
            /\ render' = render
            /\ rebuild' = rebuild
            /\ old_chunk_pos' = old_chunk_pos
            /\ DOMAIN chunks \subseteq DOMAIN chunks'
            /\ \A p \in DOMAIN chunks : chunks'[p] = chunks[p]
            /\ \A p \in DOMAIN chunks' \ DOMAIN chunks :
                   p \notin rebuild => (p \notin render' /\ p \notin rebuild')
        /\ SameCoordinate => (~last'.transition /\ render' = render)
        /\ (last'.op \in {"add_chunk", "rebuild_chunks", "draw_chunks"}
                \/ SameCoordinate) =>
               \A p \in DOMAIN chunks :
                   Hidden(p) => /\ p \notin render'
                                /\ p \notin rebuild'
                                /\ chunks'[p] = chunks[p] ]_vars

\* An update that derived the same coordinate again has left a chunk of the
\* current window, added after the last transition, without mesh, invisible
\* and not queued.
C27_Witness ==
    /\ last.op = "update"
    /\ ~last.transition
    /\ old_chunk_pos # None
    /\ \E p \in window(old_chunk_pos[1]) :
           /\ Hidden(p)
           /\ chunks[p].mesh = None

(* ------------------------------------------------------------------ *)
(* Queued positions across transitions (RoamSpec).                     *)
(* ------------------------------------------------------------------ *)

\* The positions the call that led to the primed state meshed.
MeshedBy(record) == { record.meshed[k] : k \in DOMAIN record.meshed }

\* C28: a transition removes nothing from rebuild: after an update the set
\* holds what it held and what the window marked, less the positions the
\* trailing rebuild_chunks visited, so a queued position outside the new
\* window that was not visited is still queued.  rebuild_chunks meshes a
\* visited position that has a chunk whether or not it is in render.
C28_TransitionKeepsQueue ==
    [][ /\ last'.op = "update" =>
            /\ rebuild' = (rebuild \cup last'.marked) \ last'.removed
            /\ last'.removed = last'.visited
            /\ \A p \in rebuild \ window(Derived) :
                   p \in rebuild' \/ p \in last'.visited
        /\ last'.op \in {"update", "rebuild_chunks"} =>
            /\ last'.visited \subseteq rebuild \cup last'.marked
            /\ MeshedBy(last') = last'.visited \cap DOMAIN chunks
            /\ \A p \in MeshedBy(last') :
                   chunks'[p] = greedy_mesh(chunks[p]) ]_vars

\* A position queued by an earlier window stayed queued through the
\* transition that left it outside, and a later rebuild_chunks has meshed the
\* chunk there: it has a mesh and is neither in the new window nor in render.
C28_Witness ==
    /\ last.op = "rebuild_chunks"
    /\ old_chunk_pos # None
    /\ \E p \in MeshedBy(last) :
           /\ p \notin window(old_chunk_pos[1])
           /\ p \notin render
           /\ p \notin last.marked
           /\ chunks[p].mesh # None

====
